---- MODULE Spec2Model ----
(***************************************************************************)
(* pgdproxy: a PostgreSQL debug proxy.  One Forwarder (a Session) per      *)
(* accepted primary connection multiplexes the primary client, the        *)
(* backend ("target") and at most one debug client over one backend       *)
(* session.  Sockets carry bytes; the codecs of pg_codec.rs frame them.    *)
(***************************************************************************)
EXTENDS Integers, Sequences, FiniteSets, TLC

(***************************************************************************)
(* Bounds of the model.                                                    *)
(***************************************************************************)
MaxSessions == 2
MaxPrimaryFrames == 2
MaxDebugConns == 2
MaxDebugFrames == 2
MaxReplyData == 1
MaxNotice == 1
MaxSsl == 2
MaxPorts == 2
MultiPrimaryFrames == 1
MaxEvents == 5
MultiEvents == 2
DebugEvents == 8
HandshakeEvents == 6
MaxPackets == 2

Sessions == 1..MaxSessions
Ports == 1..MaxPorts

(***************************************************************************)
(* Bytes of the wire protocol.                                             *)
(***************************************************************************)
\* The bytes the program tests or writes.
TagParse == 80
TagTerminate == 88
TagAuth == 82
TagReady == 90
SslNo == 78
StatusIdle == 73

\* The frames of the runs: tag, length (4 bytes, itself included), payload.
\* Query 'Q', PasswordMessage 'p', DataRow 'D' and NoticeResponse 'N' stand
\* for the tags the program does not tell apart.
ParseFrame == <<TagParse, 0, 0, 0, 4>>
QueryFrame == <<81, 0, 0, 0, 4>>
TerminateFrame == <<TagTerminate, 0, 0, 0, 4>>
PasswordFrame == <<112, 0, 0, 0, 4>>
DataFrame == <<68, 0, 0, 0, 4>>
NoticeFrame == <<78, 0, 0, 0, 4>>
ReadyFrame == <<TagReady, 0, 0, 0, 5, StatusIdle>>
AuthOkFrame == <<TagAuth, 0, 0, 0, 8, 0, 0, 0, 0>>
AuthPwFrame == <<TagAuth, 0, 0, 0, 8, 0, 0, 0, 3>>
SslRequestPacket == <<0, 0, 0, 8, 4, 210, 22, 47>>
\* What a backend answers to an SSL request: 'N', or 'S'.
SslReplies == {<<SslNo>>, <<83>>}
StartupPacket == <<0, 0, 0, 8, 0, 3, 0, 0>>

(***************************************************************************)
(* pg_codec.rs                                                             *)
(***************************************************************************)
\* (&src[i..i+4]).get_i32(): big-endian, two's complement, 32 bits.
GetI32(b, i) ==
    LET hi == IF b[i] >= 128 THEN b[i] - 256 ELSE b[i]
    IN  hi * 16777216 + b[i + 1] * 65536 + b[i + 2] * 256 + b[i + 3]

Last(q) == q[Len(q)]
Take(b, n) == SubSeq(b, 1, n)
Drop(b, n) == SubSeq(b, n + 1, Len(b))

NoFrame == <<>>
DecNone(b) == [kind |-> "none", frame |-> NoFrame, rest |-> b]
DecSome(b, n) == [kind |-> "frame", frame |-> Take(b, n), rest |-> Drop(b, n)]
DecErr(b) == [kind |-> "error", frame |-> NoFrame, rest |-> b]
DecPanic(b) == [kind |-> "panic", frame |-> NoFrame, rest |-> b]

\* "ClientCommands are always done".
AlwaysDone(frame) == TRUE

\* FrameInfo for ClientCommand: done is "tag is not Parse".
ClientDone(frame) == frame[1] # TagParse

\* FrameInfo for ForwardingBackendData: done is request_complete, set by the
\* decoder when the tag is ReadyForQuery.
BackendDone(frame) == frame[1] = TagReady

\* FrameInfo::command: the tag byte.
Command(frame) == frame[1]

\* A decoder of client frames that takes the length for that of the frame.
LengthOnly(src) ==
    IF Len(src) < 5 THEN DecNone(src)
    ELSE IF GetI32(src, 2) < 1 \/ Len(src) < GetI32(src, 2) THEN DecNone(src)
    ELSE DecSome(src, GetI32(src, 2))

\* Decoder for ForwardingClientCodec.  The length is cast "as usize": a
\* negative length is a number no buffer reaches, except -1, for which
\* len + 1 overflows (a panic in a debug build; in a release build it wraps
\* to 0 and the empty frame is indexed by done(), a panic as well).
ClientDecode(src) ==
    IF Len(src) = 0 THEN DecNone(src)
    ELSE IF Len(src) < 5 THEN DecNone(src)
    ELSE LET len == GetI32(src, 2)
         IN  IF len = -1 THEN DecPanic(src)
             ELSE IF len < 0 THEN DecNone(src)
             ELSE IF Len(src) < len + 1 THEN DecNone(src)
             ELSE IF len + 1 = 0 THEN DecPanic(src)
             ELSE DecSome(src, len + 1)

\* Decoder for ForwardingBackendCodec, on backend::Header::parse, which
\* yields none below 5 bytes and fails when the length is below 4.
BackendDecode(src) ==
    IF Len(src) < 5 THEN DecNone(src)
    ELSE LET hlen == GetI32(src, 2)
         IN  IF hlen < 4 THEN DecErr(src)
             ELSE IF Len(src) < hlen + 1 THEN DecNone(src)
             ELSE DecSome(src, hlen + 1)

\* A startup decoder that does not know the SSL request.
StartupOnly(src) ==
    IF Len(src) < 8 THEN DecNone(src)
    ELSE [kind |-> "startup", frame |-> Take(src, 8), rest |-> Drop(src, 8)]

\* A startup decoder that takes all that is buffered for the message.
StartupWhole(src) ==
    IF Len(src) < 8 \/ GetI32(src, 1) < 0 \/ Len(src) < GetI32(src, 1) THEN DecNone(src)
    ELSE IF Take(src, 8) = SslRequestPacket
         THEN [kind |-> "ssl", frame |-> Take(src, 8), rest |-> Drop(src, 8)]
         ELSE [kind |-> "startup", frame |-> src, rest |-> <<>>]

\* Decoder for StartupRequest.
StartupDecode(src) ==
    IF Len(src) < 8 THEN DecNone(src)
    ELSE LET len == GetI32(src, 1)
         IN  IF len >= 0 /\ Len(src) < len THEN DecNone(src)
             ELSE IF len < 0 THEN DecNone(src)
             ELSE IF Take(src, 8) = SslRequestPacket
                  THEN [kind |-> "ssl", frame |-> Take(src, 8), rest |-> Drop(src, 8)]
                  ELSE [kind |-> "startup", frame |-> Take(src, len),
                        rest |-> Drop(src, len)]

\* An encoder that writes the header only.
EncodeHeader(item) == Take(item, 5)

\* Encoders: dst.extend_from_slice(&item).
Encode(item) == item

(***************************************************************************)
(* tokio_util Framed::next over a socket: decode what is buffered; when    *)
(* that yields nothing, read what the socket holds and decode again; at    *)
(* end of stream an empty buffer ends the stream and a non-empty one is an *)
(* error.  "pending" leaves everything as it is.                           *)
(***************************************************************************)
ReadResult(kind, frame, buf, sock) ==
    [kind |-> kind, frame |-> frame, buf |-> buf, sock |-> sock]

\* The decoder of the codec a Framed was built with.
Decode(codec, src) ==
    CASE codec = "ClientCodec" -> ClientDecode(src)
      [] codec = "BackendCodec" -> BackendDecode(src)
      [] codec = "StartupRequest" -> StartupDecode(src)

FramedNext(codec, buf, sock, eof) ==
    LET d1 == Decode(codec, buf)
    IN  IF d1.kind \notin {"none"}
        THEN ReadResult(d1.kind, d1.frame, d1.rest, sock)
        ELSE IF sock # <<>>
             THEN LET d2 == Decode(codec, buf \o sock)
                  IN  IF d2.kind # "none"
                      THEN ReadResult(d2.kind, d2.frame, d2.rest, <<>>)
                      ELSE IF eof THEN ReadResult("error", NoFrame, buf \o sock, <<>>)
                      ELSE ReadResult("pending", NoFrame, buf, sock)
             ELSE IF eof
                  THEN IF buf = <<>> THEN ReadResult("eof", NoFrame, buf, sock)
                       ELSE ReadResult("error", NoFrame, buf, sock)
                  ELSE ReadResult("pending", NoFrame, buf, sock)

(***************************************************************************)
(* State.                                                                  *)
(*  fw[s]    the Forwarder of session s: its variant (st), the await it is *)
(*           suspended at inside run (pc), the read buffers of its Framed  *)
(*           streams, the debug client it holds (dbg, 0 when none), its    *)
(*           debug listener and ports, whether it was given a PortMapper,  *)
(*           and, once run has returned an error, the stream it was the    *)
(*           error of.                                                     *)
(*  net[s]   the sockets as their peers drive them: bytes sent and not yet *)
(*           read by the proxy, and whether the peer has closed.  dconn is *)
(*           the sequence of connections made to the debug listener.       *)
(*  wire[s]  what the proxy has written, in the order written: "up", to    *)
(*           the backend, with the peer the bytes came from (0 the         *)
(*           primary, d > 0 debug connection d), and "down", to the peer   *)
(*           named, the bytes being the backend's or the proxy's own; hs   *)
(*           marks what the primary handshake wrote.                       *)
(*  be[s]    the backend of session s.                                     *)
(*  pri[s]   the primary client of session s.                              *)
(*  port_map the PortMapper's HashMap, shared by all sessions.             *)
(*  os       the process: connections the Listener may still accept, the   *)
(*           ports the system hands out, whether the accept loop runs.     *)
(*  codec    a decoder on its own, with the buffer it is called on: used   *)
(*           where the decoders are examined apart from any session.       *)
(***************************************************************************)
VARIABLES fw, net, wire, be, pri, port_map, os, codec

vars == <<fw, net, wire, be, pri, port_map, os, codec>>

Primary == 0
Unsolicited == 0 - 1

Live(s) == fw[s].st \notin {"Unborn", "Terminated"}

NewForwarder ==
    [st |-> "Unborn", pc |-> "run", pm |-> FALSE, cbuf |-> <<>>, tbuf |-> <<>>,
     dbuf |-> <<>>, dbg |-> 0, listener |-> FALSE, debug_port |-> 0, client_port |-> 0,
     err |-> "none"]

NewNet == [csock |-> <<>>, ceof |-> FALSE, tsock |-> <<>>, teof |-> FALSE, dconn |-> <<>>]

NewWire == <<>>

NewBackend ==
    [phase |-> "init", owed |-> <<>>, emitted |-> <<>>, data |-> 0, notices |-> 0, ssl |-> 0]

\* A decoder on its own: the codec, the packets of the stream, the bytes of
\* them still to arrive, the buffer (src), what decode has yielded, and the
\* last call of decode: the buffer it was called on and what it returned.
NoCall == [src |-> <<>>, res |-> [kind |-> "never", frame |-> <<>>, rest |-> <<>>]]

NewCodec(which, packets, input) ==
    [which |-> which, packets |-> packets, input |-> input, buf |-> <<>>, out |-> <<>>,
     last |-> NoCall, ended |-> FALSE]

NoCodec == NewCodec("none", <<>>, <<>>)

NewPrimary == [ssl |-> 0, started |-> FALSE, pw |-> FALSE, sent |-> <<>>, max |-> 0]

InitWith(slots, ports, pm, frames, events, connects) ==
    /\ fw = [s \in Sessions |-> NewForwarder]
    /\ net = [s \in Sessions |-> NewNet]
    /\ wire = [s \in Sessions |-> NewWire]
    /\ be = [s \in Sessions |-> NewBackend]
    /\ pri = [s \in Sessions |-> [NewPrimary EXCEPT !.max = frames]]
    /\ port_map = <<>>
    /\ os = [slots |-> slots, ports |-> ports, pm |-> pm, accepting |-> TRUE, events |-> events,
             connects |-> connects]
    /\ codec = NoCodec

Init == InitWith(1, {1}, TRUE, MaxPrimaryFrames, MaxEvents, BOOLEAN)

(***************************************************************************)
(* Writing to a socket.  A write to a peer that is still there succeeds; a *)
(* write to a peer that has closed succeeds (the bytes are dropped by the  *)
(* peer's system) or fails, as the system decides.                         *)
(***************************************************************************)
WriteOutcomes(peerClosed) == IF peerClosed THEN {TRUE, FALSE} ELSE {TRUE}

DebugConn(s) == net[s].dconn[fw[s].dbg]

PeerClosed(s, side) ==
    CASE side = "client" -> net[s].ceof
      [] side = "target" -> net[s].teof
      [] side = "debug" -> DebugConn(s).eof

\* The source a stream's frames are logged under.
SideId(s, side) == IF side = "debug" THEN fw[s].dbg ELSE Primary

(***************************************************************************)
(* The backend, PostgreSQL as the proxy assumes it: after the startup      *)
(* message it authenticates (trust: AuthenticationOk; password: a request, *)
(* the client's answer, AuthenticationOk) and reports ReadyForQuery; from  *)
(* then on it owes one reply, frames ending in ReadyForQuery, for every    *)
(* frame that completes a request, to the side that frame came from.       *)
(***************************************************************************)
BackendReceive(b, src, kind, bytes) ==
    CASE kind = "ssl" -> [b EXCEPT !.ssl = @ + 1]
      [] kind = "startup" -> [b EXCEPT !.phase = IF @ = "init" THEN "auth" ELSE @]
      [] OTHER ->
            IF b.phase = "pw" THEN [b EXCEPT !.phase = "authok"]
            ELSE IF b.phase = "idle" /\ ClientDone(bytes)
                 THEN [b EXCEPT !.owed = Append(@, src)]
                 ELSE b

(***************************************************************************)
(* Termination of a session: Forwarder::start returns the error and the    *)
(* task ends, which drops the sockets, the listener and the debug client.  *)
(***************************************************************************)
DroppedConns(conns) ==
    [d \in DOMAIN conns |-> [conns[d] EXCEPT !.state = "dropped", !.sock = <<>>]]

TerminatedForwarder(f, side) ==
    [NewForwarder EXCEPT !.st = "Terminated", !.pm = f.pm, !.err = side]

TerminatedNet(n) == [NewNet EXCEPT !.ceof = n.ceof, !.teof = n.teof,
                                   !.dconn = DroppedConns(n.dconn)]

\* An error that ends every task of the process.
EndedAll(s, side) ==
    /\ fw' = [t \in Sessions |->
                 IF fw[t].st = "Unborn" THEN fw[t] ELSE TerminatedForwarder(fw[t], side)]
    /\ net' = [t \in Sessions |-> TerminatedNet(net[t])]

\* The task of session s ends with an error of stream `side`.
Ended(s, side) ==
    /\ fw' = [fw EXCEPT ![s] = TerminatedForwarder(@, side)]
    /\ net' = [net EXCEPT ![s] = TerminatedNet(@)]

\* run moves on to variant st at await pc (or returns an error, st being
\* "Terminated"), after the read r of stream `side`, whose buffer and socket
\* are left as r says; keep says whether the debug client is kept.
Goto(s, st, pc, r, side, keep) ==
    IF st = "Terminated"
    THEN Ended(s, side)
    ELSE LET d == fw[s].dbg
             f1 == [fw[s] EXCEPT !.st = st, !.pc = pc,
                       !.cbuf = IF side = "client" THEN r.buf ELSE @,
                       !.tbuf = IF side = "target" THEN r.buf ELSE @,
                       !.dbuf = IF ~keep THEN <<>>
                                ELSE IF side = "debug" THEN r.buf ELSE @,
                       !.dbg = IF keep THEN @ ELSE 0]
             n1 == [net[s] EXCEPT
                       !.csock = IF side = "client" THEN r.sock ELSE @,
                       !.tsock = IF side = "target" THEN r.sock ELSE @,
                       !.dconn = IF d = 0 THEN @
                                 ELSE IF ~keep
                                 THEN [@ EXCEPT ![d].state = "dropped", ![d].sock = <<>>]
                                 ELSE IF side = "debug" THEN [@ EXCEPT ![d].sock = r.sock]
                                 ELSE @]
         IN  /\ fw' = [fw EXCEPT ![s] = f1]
             /\ net' = [net EXCEPT ![s] = n1]

\* Where a position is left to.
To(st, pc, keep) == [st |-> st, pc |-> pc, keep |-> keep]
Fatal == To("Terminated", "run", FALSE)

\* The same after an error of stream `failed`, the read r being of `side`.
GotoAfter(s, to, r, side, failed) ==
    IF to.st = "Terminated"
    THEN Ended(s, failed)
    ELSE Goto(s, to.st, to.pc, r, side, to.keep)

Read(s, side) ==
    CASE side = "client" ->
            FramedNext("ClientCodec", fw[s].cbuf, net[s].csock, net[s].ceof)
      [] side = "target" ->
            FramedNext("BackendCodec", fw[s].tbuf, net[s].tsock, net[s].teof)
      [] side = "debug" ->
            FramedNext("ClientCodec", fw[s].dbuf, DebugConn(s).sock, DebugConn(s).eof)

Written(dir, peer, origin, bytes, hs) ==
    [dir |-> dir, peer |-> peer, origin |-> origin, bytes |-> bytes, hs |-> hs, ok |-> TRUE]

\* A send that failed: nothing reached the peer.
Failed(w) == [w EXCEPT !.ok = FALSE]

Done(side, frame) == IF side = "target" THEN BackendDone(frame) ELSE ClientDone(frame)

\* target.send(data): the frame's bytes reach the peer of the stream `to`,
\* or the send fails.
Sent(s, from, to, frame) ==
    IF to = "target"
    THEN Written("up", SideId(s, from), "client", Encode(frame), fw[s].st = "Start")
    ELSE Written("down", SideId(s, to), "backend", Encode(frame), fw[s].st = "Start")

Send(s, from, to, frame, ok) ==
    /\ wire' = [wire EXCEPT ![s] =
                   Append(@, IF ok THEN Sent(s, from, to, frame)
                             ELSE Failed(Sent(s, from, to, frame)))]
    /\ be' = IF ok /\ to = "target"
             THEN [be EXCEPT ![s] =
                      BackendReceive(@, SideId(s, from), "frame", Encode(frame))]
             ELSE be


(***************************************************************************)
(* The match arms of run: the state each call of forward or do_forward     *)
(* leads to, by the (done, command) it returned.                           *)
(***************************************************************************)
\* An authenticate that is content with the backend's first frame.
BindEarly(done, tag) == To("Authenticated", "run", TRUE)

AuthFirstRet(done, tag) ==
    IF tag # TagAuth THEN To("Start", "auth2", TRUE) ELSE To("Start", "auth3", TRUE)

AuthSecondRet(done, tag) == To("Start", "auth3", TRUE)

AuthLastRet(done, tag) == To("Authenticated", "run", TRUE)

\* A backend arm that never leaves its loop.
NeverIdle(done, tag) == To("Listening", "fwd_target", TRUE)

ListeningClientRet(done, tag) ==
    IF done THEN To("Listening", "select", TRUE) ELSE To("ForwardingClient", "run", TRUE)

ListeningTargetRet(done, tag) ==
    IF done THEN To("Listening", "select", TRUE) ELSE To("ForwardingServer", "run", TRUE)

ForwardingClientRet(done, tag) ==
    IF done THEN To("ForwardingServer", "run", TRUE) ELSE To("ForwardingClient", "run", TRUE)

ForwardingServerRet(done, tag) ==
    IF done THEN To("Listening", "select", TRUE) ELSE To("ForwardingServer", "run", TRUE)

\* A debug arm that forgets the debug client once its request is sent.
ForgetDebug(done, tag) == To("Listening", "select", FALSE)

DebugModeDebugRet(done, tag) ==
    IF done THEN To("DebugForwardingServer", "run", TRUE)
    ELSE To("DebugForwardingClient", "run", TRUE)

\* A backend arm that goes back to Listening with the debug client in hand.
KeepDebug(done, tag) == To("Listening", "select", TRUE)

DebugModeTargetRet(done, tag) ==
    IF done THEN To("Listening", "select", FALSE) ELSE To("ForwardingServer", "run", FALSE)

DebugForwardingServerRet(done, tag) ==
    IF done THEN To("DebugMode", "select", TRUE)
    ELSE To("DebugForwardingServer", "run", TRUE)

\* What run does with the (done, command) that the call `arm` returned.
Returned(arm, done, tag) ==
    CASE arm = "AuthFirst" -> AuthFirstRet(done, tag)
      [] arm = "AuthSecond" -> AuthSecondRet(done, tag)
      [] arm = "AuthLast" -> AuthLastRet(done, tag)
      [] arm = "ListeningClient" -> ListeningClientRet(done, tag)
      [] arm = "ListeningTarget" -> ListeningTargetRet(done, tag)
      [] arm = "ForwardingClient" -> ForwardingClientRet(done, tag)
      [] arm = "ForwardingServer" -> ForwardingServerRet(done, tag)
      [] arm = "DebugModeDebug" -> DebugModeDebugRet(done, tag)
      [] arm = "DebugModeTarget" -> DebugModeTargetRet(done, tag)
      [] arm = "DebugForwardingServer" -> DebugForwardingServerRet(done, tag)

(***************************************************************************)
(* do_forward.  SendTurn is target.send(data) for a frame in hand and what *)
(* follows it: the call returns (done, command) when the frame is done or  *)
(* until_complete is false, and reads on otherwise; a failed send returns  *)
(* the error.  `arm` names the caller, whose match decides what follows    *)
(* the value returned; onMore is the await inside the loop, onErr what the *)
(* caller does with an error.                                              *)
(***************************************************************************)
SendTurn(s, from, to, r, until_complete, arm, onMore, onErr) ==
    \E ok \in WriteOutcomes(PeerClosed(s, to)) :
        IF ok
        THEN LET done == Done(from, r.frame)
                 nxt == IF done \/ ~until_complete
                        THEN Returned(arm, done, Command(r.frame))
                        ELSE onMore
             IN  /\ Send(s, from, to, r.frame, TRUE)
                 /\ Goto(s, nxt.st, nxt.pc, r, from, nxt.keep)
        ELSE /\ Send(s, from, to, r.frame, FALSE)
             /\ GotoAfter(s, onErr, r, from, to)

\* A failed read where the caller does `to`; a panic ends the task.
ReadFailed(s, r, from, to) ==
    LET nxt == IF r.kind = "panic" THEN Fatal ELSE to
    IN  /\ GotoAfter(s, nxt, r, from, from)
        /\ UNCHANGED <<wire, be>>

\* One turn of do_forward's loop: client.next(), then the send.
do_forward(s, from, to, until_complete, arm, onMore, onErr) ==
    LET r == Read(s, from)
    IN  /\ r.kind # "pending"
        /\ IF r.kind = "frame"
           THEN SendTurn(s, from, to, r, until_complete, arm, onMore, onErr)
           ELSE ReadFailed(s, r, from, onErr)

\* A forward that returns after one frame, complete or not.
ForwardOne(s, from, to, arm, onMore, onErr) ==
    do_forward(s, from, to, FALSE, arm, onMore, onErr)

forward(s, from, to, arm, onMore, onErr) ==
    do_forward(s, from, to, TRUE, arm, onMore, onErr)

\* An arm of a select: message = stream.next(), then forward with the
\* message as the initial one; a failed read is the arm's own business.
SelectArm(s, from, to, arm, onMore, onSendErr, onReadErr) ==
    LET r == Read(s, from)
    IN  /\ r.kind # "pending"
        /\ IF r.kind = "frame"
           THEN SendTurn(s, from, to, r, TRUE, arm, onMore, onSendErr)
           ELSE ReadFailed(s, r, from, onReadErr)

(***************************************************************************)
(* Listener::start: the accept loop spawns one task per connection, which  *)
(* connects to the target and runs Forwarder::start.                       *)
(***************************************************************************)
FreeClientPorts == os.ports \ {fw[t].client_port : t \in {u \in Sessions : Live(u)}}

\* bind("127.0.0.1:0"): a port no socket of the system holds; the ports of
\* listeners are numbered above those of connections.
FreeDebugPorts ==
    {MaxPorts + p : p \in os.ports}
        \ {fw[t].debug_port : t \in {u \in Sessions : Live(u) /\ fw[u].listener}}

ListenerAccept(s) ==
    /\ os.accepting
    /\ fw[s].st = "Unborn"
    /\ s <= os.slots
    /\ \A t \in Sessions : t < s => fw[t].st # "Unborn"
    /\ \E connected \in os.connects :
          IF connected
          THEN \E port \in FreeClientPorts :
                  fw' = [fw EXCEPT ![s] = [NewForwarder EXCEPT !.st = "Start",
                                              !.pc = "startup", !.pm = os.pm,
                                              !.client_port = port]]
          ELSE fw' = [fw EXCEPT ![s] = TerminatedForwarder(@, "connect")]
    /\ UNCHANGED <<net, wire, be, pri, port_map, os, codec>>

(***************************************************************************)
(* Forwarder::run, variant Start: startup, then authenticate.              *)
(***************************************************************************)
\* startup: one packet through a new Framed with StartupRequest.  What the
\* Framed has read beyond the packet stays in its buffer, which nothing
\* reads again.
StartStartup(s) ==
    /\ fw[s].st = "Start" /\ fw[s].pc = "startup"
    /\ LET r == FramedNext("StartupRequest", <<>>, net[s].csock, net[s].ceof)
       IN  /\ r.kind # "pending"
           /\ IF r.kind \in {"ssl", "startup"}
              THEN \E ok \in WriteOutcomes(net[s].teof) :
                      IF ok
                      THEN /\ fw' = [fw EXCEPT ![s].pc =
                                        IF r.kind = "ssl" THEN "ssl_reply" ELSE "auth1"]
                           /\ net' = [net EXCEPT ![s].csock = r.sock]
                           /\ wire' = [wire EXCEPT ![s] =
                                          Append(@, Written("up", Primary, "client",
                                                            r.frame, TRUE))]
                           /\ be' = [be EXCEPT ![s] =
                                        BackendReceive(@, Primary, r.kind, r.frame)]
                      ELSE /\ GotoAfter(s, Fatal, r, "client", "target")
                           /\ UNCHANGED <<wire, be>>
              ELSE /\ GotoAfter(s, Fatal, r, "client", "client")
                   /\ UNCHANGED <<wire, be>>
    /\ UNCHANGED <<pri, port_map, os, codec>>

\* startup, after an SSL request: target.read_u8() must give 'N', which is
\* then written to the client, and startup starts again.
StartSslReply(s) ==
    /\ fw[s].st = "Start" /\ fw[s].pc = "ssl_reply"
    /\ net[s].tsock # <<>> \/ net[s].teof
    /\ LET r == ReadResult("eof", NoFrame, <<>>, net[s].tsock)
       IN  IF net[s].tsock # <<>> /\ Head(net[s].tsock) = SslNo
           THEN \E ok \in WriteOutcomes(net[s].ceof) :
                   IF ok
                   THEN /\ fw' = [fw EXCEPT ![s].pc = "startup"]
                        /\ net' = [net EXCEPT ![s].tsock = Tail(@)]
                        /\ wire' = [wire EXCEPT ![s] =
                                       Append(@, Written("down", Primary, "proxy",
                                                         <<SslNo>>, TRUE))]
                   ELSE /\ GotoAfter(s, Fatal, r, "target", "client")
                        /\ UNCHANGED wire
           ELSE /\ GotoAfter(s, Fatal, r, "target", "target")
                /\ UNCHANGED wire
    /\ UNCHANGED <<be, pri, port_map, os, codec>>

\* authenticate: one frame from the backend to the client; then, by its
\* tag, one frame from the client to the backend; then backend frames to
\* the client until ReadyForQuery.
StartAuthenticate(s) ==
    /\ fw[s].st = "Start"
    /\ CASE fw[s].pc = "auth1" ->
              do_forward(s, "target", "client", FALSE, "AuthFirst", Fatal, Fatal)
         [] fw[s].pc = "auth2" ->
              do_forward(s, "client", "target", FALSE, "AuthSecond", Fatal, Fatal)
         [] fw[s].pc = "auth3" ->
              forward(s, "target", "client", "AuthLast", To("Start", "auth3", TRUE), Fatal)
         [] OTHER -> FALSE
    /\ UNCHANGED <<pri, port_map, os, codec>>

(***************************************************************************)
(* Forwarder::run, variant Authenticated: bind the debug listener, record  *)
(* (client_port, debug_port) in the PortMapper if there is one.            *)
(***************************************************************************)
PortMapAdd(m, client, debug) ==
    [k \in DOMAIN m \cup {client} |-> IF k = client THEN debug ELSE m[k]]

\* lookup_debug_port: the value under the key, if any (0: None).
lookup_debug_port(m, client) == IF client \in DOMAIN m THEN m[client] ELSE 0

\* get_all_debug_ports: the values of the map, one per key, as a bag.
get_all_debug_ports(m) ==
    [p \in {m[k] : k \in DOMAIN m} |-> Cardinality({k \in DOMAIN m : m[k] = p})]

AuthenticatedRun(s) ==
    /\ fw[s].st = "Authenticated"
    /\ \E port \in FreeDebugPorts :
          /\ fw' = [fw EXCEPT ![s].st = "Listening", ![s].pc = "select",
                              ![s].listener = TRUE, ![s].debug_port = port]
          /\ port_map' = IF fw[s].pm THEN PortMapAdd(port_map, fw[s].client_port, port)
                         ELSE port_map
    /\ UNCHANGED <<net, wire, be, pri, os, codec>>

(***************************************************************************)
(* Forwarder::run, variant Listening: select over the primary, the backend *)
(* and the debug listener.                                                 *)
(***************************************************************************)
ListeningClient(s) ==
    /\ fw[s].st = "Listening"
    /\ \/ /\ fw[s].pc = "select"
          /\ SelectArm(s, "client", "target", "ListeningClient",
                       To("Listening", "fwd_client", TRUE), Fatal, Fatal)
       \/ /\ fw[s].pc = "fwd_client"
          /\ forward(s, "client", "target", "ListeningClient",
                     To("Listening", "fwd_client", TRUE), Fatal)
    /\ UNCHANGED <<pri, port_map, os, codec>>

ListeningTarget(s) ==
    /\ fw[s].st = "Listening"
    /\ \/ /\ fw[s].pc = "select"
          /\ SelectArm(s, "target", "client", "ListeningTarget",
                       To("Listening", "fwd_target", TRUE), Fatal, Fatal)
       \/ /\ fw[s].pc = "fwd_target"
          /\ forward(s, "target", "client", "ListeningTarget",
                     To("Listening", "fwd_target", TRUE), Fatal)
    /\ UNCHANGED <<pri, port_map, os, codec>>

\* The accept arm: accept a connection of the listener's queue, then
\* fake_startup (one startup packet; an SSL request is answered 'N' and the
\* next packet awaited) and fake_authenticate (AuthenticationOk and
\* ReadyForQuery, written to the debug client).  Every error is returned.
Queued(s) == {d \in DOMAIN net[s].dconn : net[s].dconn[d].state = "queued"}

FirstQueued(s) == CHOOSE d \in Queued(s) : \A e \in Queued(s) : d <= e

ProxyWrites(d, frames) ==
    [i \in 1..Len(frames) |-> Written("down", d, "proxy", frames[i], FALSE)]

\* A fake handshake that reports ReadyForQuery first.
ReadyFirst == <<ReadyFrame, AuthOkFrame>>

\* What fake_authenticate writes: [82, 0, 0, 0, 8, 0, 0, 0, 0], then
\* [90, 0, 0, 0, 5, 73].
FakeHandshake == <<AuthOkFrame, ReadyFrame>>

fake_authenticate(s, r) ==
    \E n \in IF DebugConn(s).eof THEN 0..2 ELSE {2} :
        /\ wire' = [wire EXCEPT ![s] =
                       @ \o ProxyWrites(fw[s].dbg, SubSeq(FakeHandshake, 1, n))]
        /\ IF n = 2
           THEN Goto(s, "DebugMode", "select", [r EXCEPT !.buf = <<>>], "debug", TRUE)
           ELSE GotoAfter(s, Fatal, r, "debug", "debug")

fake_startup(s) ==
    LET r == FramedNext("StartupRequest", <<>>, DebugConn(s).sock, DebugConn(s).eof)
    IN  /\ r.kind # "pending"
        /\ CASE r.kind = "ssl" ->
                  \E ok \in WriteOutcomes(DebugConn(s).eof) :
                      IF ok
                      THEN /\ wire' = [wire EXCEPT ![s] =
                                          @ \o ProxyWrites(fw[s].dbg, <<(<<SslNo>>)>>)]
                           /\ Goto(s, "Listening", "fake_startup",
                                   [r EXCEPT !.buf = <<>>], "debug", TRUE)
                      ELSE /\ GotoAfter(s, Fatal, r, "debug", "debug")
                           /\ UNCHANGED wire
             [] r.kind = "startup" -> fake_authenticate(s, r)
             [] OTHER -> /\ GotoAfter(s, Fatal, r, "debug", "debug")
                         /\ UNCHANGED wire

ListeningAccept(s) ==
    /\ fw[s].st = "Listening"
    /\ \/ /\ fw[s].pc = "select"
          /\ Queued(s) # {}
          /\ fw' = [fw EXCEPT ![s].pc = "fake_startup", ![s].dbg = FirstQueued(s)]
          /\ net' = [net EXCEPT ![s].dconn[FirstQueued(s)].state = "attached"]
          /\ UNCHANGED wire
       \/ /\ fw[s].pc = "fake_startup"
          /\ fake_startup(s)
    /\ UNCHANGED <<be, pri, port_map, os, codec>>

(***************************************************************************)
(* The variants ForwardingClient and ForwardingServer.                     *)
(***************************************************************************)
ForwardingClient(s) ==
    /\ fw[s].st = "ForwardingClient"
    /\ forward(s, "client", "target", "ForwardingClient",
               To("ForwardingClient", "run", TRUE), Fatal)
    /\ UNCHANGED <<pri, port_map, os, codec>>

ForwardingServer(s) ==
    /\ fw[s].st = "ForwardingServer"
    /\ forward(s, "target", "client", "ForwardingServer",
               To("ForwardingServer", "run", TRUE), Fatal)
    /\ UNCHANGED <<pri, port_map, os, codec>>

(***************************************************************************)
(* Variant DebugMode: select over the debug client and the backend.        *)
(***************************************************************************)
\* A debug arm that tells no Terminate frame from the others.
NoTerminate(data) == FALSE

\* data[0] == 88
IsTerminate(data) == data[1] = TagTerminate

\* The debug arm: a Terminate frame, an error and the end of the stream
\* drop the debug client and lead to Listening; any other frame is
\* forwarded to the backend, the errors of which are returned.
DebugModeDebug(s) ==
    /\ fw[s].st = "DebugMode"
    /\ \/ /\ fw[s].pc = "select"
          /\ LET r == Read(s, "debug")
             IN  /\ r.kind # "pending"
                 /\ IF r.kind = "frame" /\ ~IsTerminate(r.frame)
                    THEN SendTurn(s, "debug", "target", r, TRUE, "DebugModeDebug",
                                  To("DebugMode", "fwd_debug", TRUE), Fatal)
                    ELSE ReadFailed(s, r, "debug", To("Listening", "select", FALSE))
       \/ /\ fw[s].pc = "fwd_debug"
          /\ forward(s, "debug", "target", "DebugModeDebug",
                     To("DebugMode", "fwd_debug", TRUE), Fatal)
    /\ UNCHANGED <<pri, port_map, os, codec>>

\* The backend arm: the frame is forwarded to the debug client.
DebugModeTarget(s) ==
    /\ fw[s].st = "DebugMode"
    /\ \/ /\ fw[s].pc = "select"
          /\ SelectArm(s, "target", "debug", "DebugModeTarget",
                       To("DebugMode", "fwd_target", TRUE), Fatal, Fatal)
       \/ /\ fw[s].pc = "fwd_target"
          /\ forward(s, "target", "debug", "DebugModeTarget",
                     To("DebugMode", "fwd_target", TRUE), Fatal)
    /\ UNCHANGED <<pri, port_map, os, codec>>

(***************************************************************************)
(* Variants DebugForwardingClient and DebugForwardingServer: the error of  *)
(* forward is caught and leads to DebugMode.                               *)
(***************************************************************************)
DebugForwardingClient(s) ==
    /\ fw[s].st = "DebugForwardingClient"
    /\ forward(s, "debug", "target", "DebugModeDebug",
               To("DebugForwardingClient", "run", TRUE), To("DebugMode", "select", TRUE))
    /\ UNCHANGED <<pri, port_map, os, codec>>

DebugForwardingServer(s) ==
    /\ fw[s].st = "DebugForwardingServer"
    /\ forward(s, "target", "debug", "DebugForwardingServer",
               To("DebugForwardingServer", "run", TRUE), To("DebugMode", "select", TRUE))
    /\ UNCHANGED <<pri, port_map, os, codec>>

(***************************************************************************)
(* The peers.  What a peer does of its own accord (a request, a            *)
(* connection, a close, a frame more than it must send) counts as an       *)
(* event, and the events of a run are bounded; what the protocol makes it  *)
(* do next (the startup message, the reply it owes) does not.              *)
(***************************************************************************)
Event == /\ os.events > 0
         /\ os' = [os EXCEPT !.events = @ - 1]
         /\ UNCHANGED codec

NoEvent == UNCHANGED <<os, codec>>

IsDown(w, to, bytes) == w.dir = "down" /\ w.peer = to /\ w.bytes = bytes /\ w.ok

Received(s, to, bytes) == \E i \in 1..Len(wire[s]) : IsDown(wire[s][i], to, bytes)

CountReceived(s, to, bytes) ==
    Cardinality({i \in 1..Len(wire[s]) : IsDown(wire[s][i], to, bytes)})

\* The primary client: SSL requests, each answered before the next packet
\* is sent; the startup message; the password when asked for one; then,
\* once it has seen ReadyForQuery, frames of requests.  A request is the
\* primary's own doing; the frames after a Parse are the rest of a batch.
PrimaryFrames == {ParseFrame, QueryFrame}

InBatch(s) == pri[s].sent # <<>> /\ ~ClientDone(Last(pri[s].sent))

PrimarySendSsl(s) ==
    /\ Live(s) /\ ~net[s].ceof
    /\ ~pri[s].started /\ pri[s].ssl < MaxSsl
    /\ CountReceived(s, Primary, <<SslNo>>) = pri[s].ssl
    /\ net' = [net EXCEPT ![s].csock = @ \o SslRequestPacket]
    /\ pri' = [pri EXCEPT ![s].ssl = @ + 1]
    /\ UNCHANGED <<fw, wire, be, port_map>>
    /\ Event

PrimarySendStartup(s) ==
    /\ Live(s) /\ ~net[s].ceof
    /\ ~pri[s].started
    /\ CountReceived(s, Primary, <<SslNo>>) = pri[s].ssl
    /\ net' = [net EXCEPT ![s].csock = @ \o StartupPacket]
    /\ pri' = [pri EXCEPT ![s].started = TRUE]
    /\ UNCHANGED <<fw, wire, be, port_map>>
    /\ NoEvent

PrimarySendPassword(s) ==
    /\ Live(s) /\ ~net[s].ceof
    /\ ~pri[s].pw /\ Received(s, Primary, AuthPwFrame)
    /\ net' = [net EXCEPT ![s].csock = @ \o PasswordFrame]
    /\ pri' = [pri EXCEPT ![s].pw = TRUE]
    /\ UNCHANGED <<fw, wire, be, port_map>>
    /\ NoEvent

PrimarySend(s) ==
    /\ Live(s) /\ ~net[s].ceof
    /\ Received(s, Primary, ReadyFrame)
    /\ Len(pri[s].sent) < pri[s].max
    /\ \E f \in PrimaryFrames :
          /\ net' = [net EXCEPT ![s].csock = @ \o f]
          /\ pri' = [pri EXCEPT ![s].sent = Append(@, f)]
    /\ UNCHANGED <<fw, wire, be, port_map>>
    /\ IF InBatch(s) THEN NoEvent ELSE Event

PrimaryClose(s) ==
    /\ Live(s) /\ ~net[s].ceof
    /\ net' = [net EXCEPT ![s].ceof = TRUE]
    /\ UNCHANGED <<fw, wire, be, pri, port_map>>
    /\ Event

\* The backend.
Emit(s, owner, bytes) ==
    /\ net' = [net EXCEPT ![s].tsock = @ \o bytes]
    /\ UNCHANGED <<fw, wire, pri, port_map>>

BackendSslReply(s) ==
    /\ Live(s) /\ ~net[s].teof
    /\ be[s].ssl > 0
    /\ \E b \in SslReplies : Emit(s, Primary, b)
    /\ be' = [be EXCEPT ![s].ssl = @ - 1]
    /\ NoEvent

BackendAuth(s) ==
    /\ Live(s) /\ ~net[s].teof
    /\ \/ /\ be[s].phase = "auth"
          /\ \E f \in {AuthOkFrame, AuthPwFrame} :
                /\ Emit(s, Primary, f)
                /\ be' = [be EXCEPT ![s].phase = IF f = AuthOkFrame THEN "idle" ELSE "pw",
                                    ![s].owed = IF f = AuthOkFrame THEN <<Primary>> ELSE @,
                                    ![s].emitted = Append(@, [owner |-> Primary, bytes |-> f])]
       \/ /\ be[s].phase = "authok"
          /\ Emit(s, Primary, AuthOkFrame)
          /\ be' = [be EXCEPT ![s].phase = "idle", ![s].owed = <<Primary>>,
                              ![s].emitted = Append(@, [owner |-> Primary,
                                                        bytes |-> AuthOkFrame])]
    /\ NoEvent

BackendReply(s) ==
    /\ Live(s) /\ ~net[s].teof
    /\ be[s].phase = "idle" /\ be[s].owed # <<>>
    /\ \/ /\ be[s].data < MaxReplyData
          /\ Event
          /\ Emit(s, Head(be[s].owed), DataFrame)
          /\ be' = [be EXCEPT ![s].data = @ + 1,
                              ![s].emitted = Append(@, [owner |-> Head(be[s].owed),
                                                        bytes |-> DataFrame])]
       \/ /\ NoEvent
          /\ Emit(s, Head(be[s].owed), ReadyFrame)
          /\ be' = [be EXCEPT ![s].data = 0, ![s].owed = Tail(@),
                              ![s].emitted = Append(@, [owner |-> Head(be[s].owed),
                                                        bytes |-> ReadyFrame])]

BackendNotice(s) ==
    /\ Live(s) /\ ~net[s].teof
    /\ be[s].phase = "idle" /\ be[s].owed = <<>>
    /\ be[s].notices < MaxNotice
    /\ Emit(s, Unsolicited, NoticeFrame)
    /\ be' = [be EXCEPT ![s].notices = @ + 1,
                        ![s].emitted = Append(@, [owner |-> Unsolicited,
                                                  bytes |-> NoticeFrame])]
    /\ Event

BackendClose(s) ==
    /\ Live(s) /\ ~net[s].teof
    /\ net' = [net EXCEPT ![s].teof = TRUE]
    /\ UNCHANGED <<fw, wire, be, pri, port_map>>
    /\ Event

\* The debug clients: a connection to the debug listener, its startup
\* message, and, once it has seen ReadyForQuery, frames of requests.
DebugFrames == {ParseFrame, QueryFrame, TerminateFrame}

NewDebugConn == [sock |-> <<>>, eof |-> FALSE, state |-> "queued", ssl |-> 0,
                 started |-> FALSE, sent |-> <<>>]

Open(s, d) == net[s].dconn[d].state # "dropped" /\ ~net[s].dconn[d].eof

DebugConnect(s) ==
    /\ Live(s) /\ fw[s].listener
    /\ Len(net[s].dconn) < MaxDebugConns
    /\ net' = [net EXCEPT ![s].dconn = Append(@, NewDebugConn)]
    /\ UNCHANGED <<fw, wire, be, pri, port_map>>
    /\ Event

\* An SSL request of a debug client, which waits for the answer to each.
DebugSendSsl(s) ==
    /\ \E d \in DOMAIN net[s].dconn :
          /\ Open(s, d) /\ ~net[s].dconn[d].started
          /\ net[s].dconn[d].ssl < MaxSsl
          /\ CountReceived(s, d, <<SslNo>>) = net[s].dconn[d].ssl
          /\ net' = [net EXCEPT ![s].dconn[d].sock = @ \o SslRequestPacket,
                                ![s].dconn[d].ssl = @ + 1]
    /\ UNCHANGED <<fw, wire, be, pri, port_map>>
    /\ Event

DebugSendStartup(s) ==
    /\ \E d \in DOMAIN net[s].dconn :
          /\ Open(s, d) /\ ~net[s].dconn[d].started
          /\ CountReceived(s, d, <<SslNo>>) = net[s].dconn[d].ssl
          /\ net' = [net EXCEPT ![s].dconn[d].sock = @ \o StartupPacket,
                                ![s].dconn[d].started = TRUE]
    /\ UNCHANGED <<fw, wire, be, pri, port_map>>
    /\ NoEvent

DebugSend(s) ==
    /\ \E d \in DOMAIN net[s].dconn :
          /\ Open(s, d) /\ Received(s, d, ReadyFrame)
          /\ Len(net[s].dconn[d].sent) < MaxDebugFrames
          /\ \E f \in DebugFrames :
                net' = [net EXCEPT ![s].dconn[d].sock = @ \o f,
                                   ![s].dconn[d].sent = Append(@, f)]
    /\ UNCHANGED <<fw, wire, be, pri, port_map>>
    /\ Event

DebugClose(s) ==
    /\ \E d \in DOMAIN net[s].dconn :
          /\ Open(s, d)
          /\ net' = [net EXCEPT ![s].dconn[d].eof = TRUE]
    /\ UNCHANGED <<fw, wire, be, pri, port_map>>
    /\ Event

(***************************************************************************)
(* The specification: one session, every peer free within the bounds.      *)
(***************************************************************************)
Run(s) ==
    \/ StartStartup(s)
    \/ StartSslReply(s)
    \/ StartAuthenticate(s)
    \/ AuthenticatedRun(s)
    \/ ListeningClient(s)
    \/ ListeningTarget(s)
    \/ ListeningAccept(s)
    \/ DebugModeDebug(s)
    \/ DebugModeTarget(s)
    \/ DebugForwardingServer(s)

Peers(s) ==
    \/ PrimarySendSsl(s)
    \/ PrimarySendStartup(s)
    \/ PrimarySendPassword(s)
    \/ PrimarySend(s)
    \/ PrimaryClose(s)
    \/ BackendSslReply(s)
    \/ BackendAuth(s)
    \/ BackendReply(s)
    \/ BackendNotice(s)
    \/ BackendClose(s)
    \/ DebugConnect(s)
    \/ DebugSendSsl(s)
    \/ DebugSendStartup(s)
    \/ DebugSend(s)
    \/ DebugClose(s)

Next == \E s \in Sessions : ListenerAccept(s) \/ Run(s) \/ Peers(s)

Spec == Init /\ [][Next]_vars

(***************************************************************************)
(* Several sessions of one process, every peer free within the bounds.     *)
(***************************************************************************)
InitMulti == InitWith(MaxSessions, Ports, TRUE, MultiPrimaryFrames, MultiEvents, BOOLEAN)

SpecMulti == InitMulti /\ [][Next]_vars

(***************************************************************************)
(* Peers that keep to the protocol.  The backend is there and answers; the *)
(* primary sends whole batches; a debug client connects while the primary  *)
(* has nothing outstanding, asks one question at a time, and leaves, by a  *)
(* Terminate frame or by closing, when it has its answers; the primary     *)
(* sends nothing while a debug client is there.                            *)
(***************************************************************************)
\* A frame the backend answers with frames ending in ReadyForQuery.
Answerable(f) == ClientDone(f) /\ f # TerminateFrame

PrimaryAnswered(s) ==
    /\ pri[s].sent # <<>> => ClientDone(Last(pri[s].sent))
    /\ CountReceived(s, Primary, ReadyFrame) = 1 + Len(SelectSeq(pri[s].sent, Answerable))

DebugAnswered(s, d) ==
    CountReceived(s, d, ReadyFrame) = 1 + Len(SelectSeq(net[s].dconn[d].sent, Answerable))

SaidTerminate(s, d) ==
    net[s].dconn[d].sent # <<>> /\ Last(net[s].dconn[d].sent) = TerminateFrame

Gone(s, d) == ~Open(s, d) \/ SaidTerminate(s, d)

DebugBusy(s) == \E d \in DOMAIN net[s].dconn : ~Gone(s, d)

\* The events peers that keep to the protocol can cause at all.
PrimaryEvents == MaxSsl + MaxPrimaryFrames * (1 + MaxReplyData)

OrderlyPrimarySend(s) ==
    /\ ~DebugBusy(s)
    /\ PrimarySend(s)
    /\ Last(pri'[s].sent) = ParseFrame => Len(pri'[s].sent) < pri[s].max

\* The frame that completes a batch begun with Parse.
PrimaryCompletes(s) ==
    /\ InBatch(s)
    /\ OrderlyPrimarySend(s)
    /\ ClientDone(Last(pri'[s].sent))

OrderlyDebugConnect(s) ==
    /\ PrimaryAnswered(s) /\ ~DebugBusy(s)
    /\ DebugConnect(s)

OrderlyDebugSend(s) ==
    /\ DebugSend(s)
    /\ \A d \in DOMAIN net[s].dconn :
          net'[s].dconn[d].sent # net[s].dconn[d].sent
              => /\ DebugAnswered(s, d) /\ ~SaidTerminate(s, d)
                 /\ ClientDone(Last(net'[s].dconn[d].sent))

OrderlyDebugClose(s) ==
    /\ DebugClose(s)
    /\ \A d \in DOMAIN net[s].dconn :
          net'[s].dconn[d].eof # net[s].dconn[d].eof => DebugAnswered(s, d)

RunPrimary(s) ==
    \/ StartStartup(s)
    \/ StartSslReply(s)
    \/ StartAuthenticate(s)
    \/ AuthenticatedRun(s)
    \/ ListeningClient(s)
    \/ ListeningTarget(s)

RunDebug(s) ==
    \/ ListeningAccept(s)
    \/ DebugModeDebug(s)
    \/ DebugForwardingServer(s)

\* A backend that trusts: AuthenticationOk at once.
BackendTrusts(s) ==
    /\ BackendAuth(s)
    /\ be'[s].phase = "idle"

OrderlyPeers(s) ==
    \/ PrimarySendSsl(s)
    \/ PrimarySendStartup(s)
    \/ PrimarySendPassword(s)
    \/ OrderlyPrimarySend(s)
    \/ BackendSslReply(s)
    \/ BackendAuth(s)
    \/ BackendReply(s)

\* The same with the plain handshake: no SSL request, no password.
PlainPeers(s) ==
    \/ PrimarySendStartup(s)
    \/ OrderlyPrimarySend(s)
    \/ BackendTrusts(s)
    \/ BackendReply(s)

RunPlain(s) ==
    \/ StartStartup(s)
    \/ StartAuthenticate(s)
    \/ AuthenticatedRun(s)
    \/ ListeningClient(s)
    \/ ListeningTarget(s)

OrderlyDebugPeers(s) ==
    \/ OrderlyDebugConnect(s)
    \/ DebugSendStartup(s)
    \/ OrderlyDebugSend(s)
    \/ OrderlyDebugClose(s)

\* What the protocol has a peer do next: the startup message, the rest of
\* a batch, the backend's answers.
Duty(s) ==
    \/ PrimarySendStartup(s)
    \/ PrimaryCompletes(s)
    \/ BackendSslReply(s)
    \/ BackendAuth(s)
    \/ BackendReply(s)

\* A ready task is polled and a peer does its duty.  (No run is endless
\* within the bounds, so the run goes on until neither is left to do.)
FairPrimary == WF_vars(\E s \in Sessions : RunPrimary(s) \/ Duty(s))

FairDebug ==
    WF_vars(\E s \in Sessions :
                \/ RunPlain(s) \/ RunDebug(s)
                \/ PrimarySendStartup(s) \/ PrimaryCompletes(s)
                \/ BackendTrusts(s) \/ BackendReply(s)
                \/ DebugSendStartup(s))

(***************************************************************************)
(* One session without any debug client.                                   *)
(***************************************************************************)
InitPrimary == InitWith(1, {1}, TRUE, MaxPrimaryFrames, PrimaryEvents, {TRUE})

NextPrimary == \E s \in Sessions : ListenerAccept(s) \/ RunPrimary(s) \/ OrderlyPeers(s)

SpecPrimary ==
    InitPrimary /\ [][NextPrimary]_vars /\ FairPrimary

(***************************************************************************)
(* One session and its debug clients.                                      *)
(***************************************************************************)
InitDebug == InitWith(1, {1}, TRUE, MaxPrimaryFrames, DebugEvents, {TRUE})

NextDebug ==
    \E s \in Sessions :
        \/ ListenerAccept(s)
        \/ RunPlain(s)
        \/ RunDebug(s)
        \/ PlainPeers(s)
        \/ OrderlyDebugPeers(s)

SpecDebug ==
    InitDebug /\ [][NextDebug]_vars /\ FairDebug

(***************************************************************************)
(* The same where the primary or the backend may close its end at any      *)
(* time, everything else staying orderly.                                  *)
(***************************************************************************)
NextFailure ==
    \E s \in Sessions :
        \/ ListenerAccept(s)
        \/ RunPlain(s)
        \/ RunDebug(s)
        \/ DebugModeTarget(s)
        \/ PlainPeers(s)
        \/ OrderlyDebugPeers(s)
        \/ PrimaryClose(s)
        \/ BackendClose(s)

FairFailure ==
    WF_vars(\E s \in Sessions :
                \/ RunPlain(s) \/ RunDebug(s) \/ DebugModeTarget(s)
                \/ PrimarySendStartup(s) \/ PrimaryCompletes(s)
                \/ BackendTrusts(s) \/ BackendReply(s)
                \/ DebugSendStartup(s))

SpecFailure ==
    InitDebug /\ [][NextFailure]_vars /\ FairFailure

(***************************************************************************)
(* One session and the handshakes of its clients, with a backend that      *)
(* refuses SSL, as a server without TLS does, and trusts the primary.      *)
(***************************************************************************)
BackendRefusesSsl(s) ==
    /\ BackendSslReply(s)
    /\ Last(net'[s].tsock) = SslNo

InitHandshake == InitWith(1, {1}, TRUE, 0, HandshakeEvents, {TRUE})

NextHandshake ==
    \E s \in Sessions :
        \/ ListenerAccept(s)
        \/ StartStartup(s)
        \/ StartSslReply(s)
        \/ StartAuthenticate(s)
        \/ AuthenticatedRun(s)
        \/ ListeningAccept(s)
        \/ DebugModeDebug(s)
        \/ PrimarySendSsl(s)
        \/ PrimarySendStartup(s)
        \/ BackendRefusesSsl(s)
        \/ BackendTrusts(s)
        \/ BackendReply(s)
        \/ OrderlyDebugConnect(s)
        \/ DebugSendSsl(s)
        \/ DebugSendStartup(s)
        \/ OrderlyDebugClose(s)

FairHandshake ==
    WF_vars(\E s \in Sessions :
                \/ StartStartup(s) \/ StartSslReply(s) \/ StartAuthenticate(s)
                \/ AuthenticatedRun(s) \/ ListeningAccept(s) \/ DebugModeDebug(s)
                \/ PrimarySendStartup(s) \/ BackendRefusesSsl(s) \/ BackendTrusts(s)
                \/ BackendReply(s) \/ DebugSendStartup(s))

SpecHandshake ==
    InitHandshake /\ [][NextHandshake]_vars /\ FairHandshake

(***************************************************************************)
(* The decoders on their own: a stream of packets arrives in chunks of any *)
(* size, each appended to the buffer, and decode is called on the buffer   *)
(* at any time, as Framed does after every read.                           *)
(***************************************************************************)
\* Frames as the protocol has them: a tag, a length of 4 or more, and
\* length - 4 bytes of payload.
WellFormed == {QueryFrame, ReadyFrame, <<68, 0, 0, 0, 6, 1, 2>>, <<0, 0, 0, 0, 4>>}

\* Headers with a length below 4: 3, 0, -1, -2 and -2^31.
Malformed ==
    {<<81, 0, 0, 0, 3>>, <<81, 0, 0, 0, 0>>, <<81, 255, 255, 255, 255>>,
     <<81, 255, 255, 255, 254>>, <<81, 128, 0, 0, 0>>}

\* What a client may send first: the SSL request, startup messages of 8 and
\* of 9 bytes, and packets whose length is 4 and -1.
StartupPackets ==
    {SslRequestPacket, StartupPacket, <<0, 0, 0, 9, 0, 3, 0, 0, 1>>,
     <<0, 0, 0, 4, 0, 3, 0, 0>>, <<255, 255, 255, 255, 0, 3, 0, 0>>}

Codecs == {"ClientCodec", "BackendCodec", "StartupRequest"}

Packets(which) ==
    IF which = "StartupRequest" THEN StartupPackets ELSE WellFormed \cup Malformed

Streams(which) == UNION {[1..n -> Packets(which)] : n \in 1..MaxPackets}

RECURSIVE Concat(_)
Concat(ps) == IF ps = <<>> THEN <<>> ELSE Head(ps) \o Concat(Tail(ps))

InitCodec ==
    /\ fw = [s \in Sessions |-> NewForwarder]
    /\ net = [s \in Sessions |-> NewNet]
    /\ wire = [s \in Sessions |-> NewWire]
    /\ be = [s \in Sessions |-> NewBackend]
    /\ pri = [s \in Sessions |-> NewPrimary]
    /\ port_map = <<>>
    /\ os = [slots |-> 0, ports |-> {}, pm |-> FALSE, accepting |-> FALSE, events |-> 0,
             connects |-> {}]
    /\ \E which \in Codecs : \E ps \in Streams(which) :
          codec = NewCodec(which, ps, Concat(ps))

\* A read: some of the bytes to come are appended to the buffer.
CodecFeed ==
    /\ ~codec.ended /\ codec.input # <<>>
    /\ \E n \in 1..Len(codec.input) :
          codec' = [codec EXCEPT !.buf = @ \o Take(codec.input, n),
                                 !.input = Drop(codec.input, n)]
    /\ UNCHANGED <<fw, net, wire, be, pri, port_map, os>>

\* decode(&mut src): what it yields is kept, the buffer is what it leaves;
\* after an error the stream has ended.
CodecDecode ==
    /\ ~codec.ended
    /\ LET r == Decode(codec.which, codec.buf)
       IN  codec' = [codec EXCEPT
                        !.buf = r.rest,
                        !.out = IF r.kind \in {"frame", "ssl", "startup"}
                                THEN Append(@, r.frame) ELSE @,
                        !.last = [src |-> codec.buf, res |-> r],
                        !.ended = r.kind \in {"error", "panic"}]
    /\ UNCHANGED <<fw, net, wire, be, pri, port_map, os>>

NextCodec == CodecFeed \/ CodecDecode

SpecCodec == InitCodec /\ [][NextCodec]_vars

(***************************************************************************)
(* What the claims speak of.                                               *)
(***************************************************************************)
IsPrefix(a, b) == Len(a) <= Len(b) /\ \A i \in 1..Len(a) : a[i] = b[i]

Bytes(ws) == [i \in 1..Len(ws) |-> ws[i].bytes]

Range(q) == {q[i] : i \in 1..Len(q)}

\* A frame delivered to the backend after the handshake, by its source.
IsUp(w) == w.dir = "up" /\ ~w.hs /\ w.ok
PrimaryUp(w) == IsUp(w) /\ w.peer = Primary
DebugUp(w) == IsUp(w) /\ w.peer # Primary
UpFrom(w, d) == IsUp(w) /\ w.peer = d

\* A backend frame forwarded to a client (or lost in a failed send).
FromBackend(w) == w.dir = "down" /\ w.origin = "backend"
ReadyForwarded(w) == FromBackend(w) /\ w.ok /\ w.bytes[1] = TagReady

Forwarded(s) == SelectSeq(wire[s], FromBackend)

\* Some ReadyForQuery was forwarded after write i and before write j.
ReadyBetween(s, i, j) == \E k \in (i + 1)..(j - 1) : ReadyForwarded(wire[s][k])

\* C1: from the delivery of a completing primary frame to the backend until
\* the following ReadyForQuery has been forwarded, no debug frame is
\* delivered to the backend.
C1_NoInterleaving ==
    \A s \in Sessions : \A i, j \in 1..Len(wire[s]) :
        (i < j /\ PrimaryUp(wire[s][i]) /\ ClientDone(wire[s][i].bytes)
               /\ DebugUp(wire[s][j]))
            => ReadyBetween(s, i, j)

\* C2: every backend frame of a response is delivered to the side whose
\* request it answers, and to no other.
C2_ResponseRouting ==
    \A s \in Sessions : \A k \in 1..Len(Forwarded(s)) :
        (Forwarded(s)[k].ok /\ be[s].emitted[k].owner # Unsolicited)
            => Forwarded(s)[k].peer = be[s].emitted[k].owner

\* C3: the backend owes ReadyForQuery to at most one of the primary and the
\* debug clients, and no primary frame is delivered to the backend between
\* a completing debug frame and the forwarding of its ReadyForQuery.
C3_SingleOwner ==
    \A s \in Sessions :
        /\ \A i, j \in 1..Len(be[s].owed) :
              (be[s].owed[i] = Primary) <=> (be[s].owed[j] = Primary)
        /\ \A i, j \in 1..Len(wire[s]) :
              (i < j /\ DebugUp(wire[s][i]) /\ ClientDone(wire[s][i].bytes)
                     /\ PrimaryUp(wire[s][j]))
                  => ReadyBetween(s, i, j)

\* C4: no error of the debug client ends the session.
C4_DebugErrorsNotFatal ==
    \A s \in Sessions : fw[s].st = "Terminated" => fw[s].err # "debug"

\* C5: what reaches the backend from one source is, frame by frame and in
\* order, what that source sent, and what reaches the clients from the
\* backend is, frame by frame and in order, what the backend sent.
C5_ByteTransparency ==
    \A s \in Sessions :
        /\ IsPrefix(Bytes(SelectSeq(wire[s], PrimaryUp)), pri[s].sent)
        /\ \A d \in DOMAIN net[s].dconn :
              IsPrefix(Bytes(SelectSeq(wire[s], LAMBDA w : UpFrom(w, d))),
                       net[s].dconn[d].sent)
        /\ IsPrefix(Bytes(Forwarded(s)), Bytes(be[s].emitted))

C5_Witness ==
    \E s \in Sessions :
        /\ Len(SelectSeq(wire[s], PrimaryUp)) >= 2
        /\ Len(SelectSeq(wire[s], DebugUp)) >= 1
        /\ \E k \in 1..Len(Forwarded(s)) :
              /\ Forwarded(s)[k].peer # Primary /\ Forwarded(s)[k].ok
              /\ Forwarded(s)[k].bytes = DataFrame

(***************************************************************************)
(* Debugging, and the round trip of the primary, with orderly peers.       *)
(***************************************************************************)
Idle(s) == fw[s].st = "Listening" /\ fw[s].pc = "select" /\ fw[s].dbg = 0

Connected(s, d) == d \in DOMAIN net[s].dconn

Dropped(s, d) == Connected(s, d) /\ net[s].dconn[d].state = "dropped"

\* Every backend frame forwarded so far went to the side it answers.
RoutedToOwner(s) ==
    \A k \in 1..Len(Forwarded(s)) :
        Forwarded(s)[k].ok /\ Forwarded(s)[k].peer = be[s].emitted[k].owner

\* Everything the backend has emitted has been forwarded.
AllAnswered(s) == Len(Forwarded(s)) = Len(be[s].emitted) /\ be[s].owed = <<>>

\* Everything the primary has sent has reached the backend.
PrimaryForwarded(s) == Bytes(SelectSeq(wire[s], PrimaryUp)) = pri[s].sent

\* Every request of debug connection d has reached the backend.
DebugForwarded(s, d) ==
    Bytes(SelectSeq(wire[s], LAMBDA w : UpFrom(w, d)))
        = SelectSeq(net[s].dconn[d].sent, Answerable)

\* Debug connection d has had every request forwarded and answered.
Served(s, d) == Connected(s, d) /\ DebugForwarded(s, d) /\ DebugAnswered(s, d)

\* The step drops debug connection d.
Drops(s, d) == Connected(s, d) /\ ~Dropped(s, d) /\ Dropped(s, d)'

\* The step forwards a ReadyForQuery that ends a reply to the primary.
ForwardsReadyToPrimary(s) ==
    /\ Len(wire'[s]) = Len(wire[s]) + 1
    /\ ReadyForwarded(Last(wire'[s]))
    /\ ~Last(wire'[s]).hs /\ Last(wire'[s]).peer = Primary

\* C6: a debug client that attaches to an idle primary and sends a Query
\* has it forwarded to the backend and the whole reply, ReadyForQuery
\* included, delivered to it and none of it to the primary; once it has
\* disconnected the session is Idle again, and the primary's next request
\* is forwarded and its reply delivered to the primary.
C6_DebugRead ==
    /\ [](\A s \in Sessions : RoutedToOwner(s))
    /\ [][\A s \in Sessions : \A d \in 1..MaxDebugConns : Drops(s, d) => Idle(s)']_vars
    /\ []<>(\A s \in Sessions :
               /\ \A d \in DOMAIN net[s].dconn :
                     /\ Served(s, d)
                     /\ net[s].dconn[d].eof => Dropped(s, d)
               /\ PrimaryForwarded(s) /\ AllAnswered(s))

C6_Witness ==
    \E s \in Sessions : \E i, j, k, l \in 1..Len(wire[s]) :
        /\ i < j /\ j < k /\ k < l
        /\ DebugUp(wire[s][i]) /\ wire[s][i].bytes = QueryFrame
        /\ ReadyForwarded(wire[s][j]) /\ wire[s][j].peer = wire[s][i].peer
        /\ net[s].dconn[wire[s][i].peer].eof /\ Dropped(s, wire[s][i].peer)
        /\ PrimaryUp(wire[s][k])
        /\ ReadyForwarded(wire[s][l]) /\ wire[s][l].peer = Primary
        /\ Idle(s)

\* C7: a Terminate frame of an attached, idle debug client is not delivered
\* to the backend; the session drops that debug client and is Idle; a new
\* connection to the debug listener is then accepted, given the fake
\* handshake and served like the first; the session stays up throughout.
C7_AttachDetach ==
    /\ [](\A s \in Sessions : \A i \in 1..Len(wire[s]) :
             wire[s][i].dir = "up" => wire[s][i].bytes # TerminateFrame)
    /\ [][\A s \in Sessions :
             /\ fw[s].listener => fw'[s].listener
             /\ \A d \in 1..MaxDebugConns :
                   (Drops(s, d) /\ SaidTerminate(s, d)) => Idle(s)']_vars
    /\ []<>(\A s \in Sessions : \A d \in DOMAIN net[s].dconn :
               /\ SaidTerminate(s, d) => Dropped(s, d)
               /\ (\A e \in 1..(d - 1) : Gone(s, e)) => Served(s, d))

C7_Witness ==
    \E s \in Sessions : \E d, e \in DOMAIN net[s].dconn :
        /\ d < e
        /\ SaidTerminate(s, d) /\ Dropped(s, d) /\ ~net[s].dconn[d].eof
        /\ QueryFrame \in Range(net[s].dconn[d].sent)
        /\ QueryFrame \in Range(net[s].dconn[e].sent)
        /\ DebugForwarded(s, d) /\ Served(s, e)
        /\ Live(s) /\ ~net[s].ceof /\ ~net[s].teof

\* C8: without any debug client and with a backend that answers, every
\* frame the primary sends after the handshake reaches the backend, every
\* frame of every reply reaches the primary, and the session is Idle when
\* the ReadyForQuery of a reply has been forwarded.
C8_PrimaryRoundTrip ==
    /\ [](C5_ByteTransparency /\ \A s \in Sessions : RoutedToOwner(s))
    /\ [][\A s \in Sessions : ForwardsReadyToPrimary(s) => Idle(s)']_vars
    /\ []<>(\A s \in Sessions : PrimaryForwarded(s) /\ AllAnswered(s))

C8_Witness ==
    \E s \in Sessions : \E i, j, k \in 1..Len(wire[s]) :
        /\ i < j /\ j < k
        /\ PrimaryUp(wire[s][i]) /\ wire[s][i].bytes = ParseFrame
        /\ PrimaryUp(wire[s][j]) /\ wire[s][j].bytes = QueryFrame
        /\ ReadyForwarded(wire[s][k]) /\ wire[s][k].peer = Primary
        /\ PrimaryForwarded(s) /\ AllAnswered(s) /\ Idle(s)

(***************************************************************************)
(* Several sessions.                                                       *)
(***************************************************************************)
\* All there is of session s: its task, its sockets and debug listener, the
\* frames in flight, its peers.
Session(s) == <<fw[s], net[s], wire[s], be[s], pri[s]>>

\* C9: a step of one session, its end with an error included, leaves every
\* other session as it is, and the accept loop goes on.
C9_SessionIsolation ==
    [][/\ \A s, t \in Sessions :
             (s # t /\ Session(s)' # Session(s)) => Session(t)' = Session(t)
       /\ os'.accepting]_vars

C9_Witness ==
    \E s, t \in Sessions :
        /\ s # t
        /\ fw[s].st = "Terminated" /\ fw[s].err = "target" /\ net[s].teof
        /\ wire[s] # <<>>
        /\ Live(t) /\ fw[t].listener
        /\ \E i \in 1..Len(wire[t]) : PrimaryUp(wire[t][i])

\* C10: the debug port of every live session with a debug listener and a
\* PortMapper is once, and only once, in get_all_debug_ports.
C10_PortMapContent ==
    \A s \in Sessions :
        (Live(s) /\ fw[s].listener /\ fw[s].pm)
            => /\ fw[s].debug_port \in DOMAIN get_all_debug_ports(port_map)
               /\ get_all_debug_ports(port_map)[fw[s].debug_port] = 1

(***************************************************************************)
(* The handshakes.                                                         *)
(***************************************************************************)
\* What the proxy has written to peer `to`, of its own or of the backend's.
Down(s, to) == SelectSeq(wire[s], LAMBDA w : w.dir = "down" /\ w.peer = to /\ w.ok)

\* The same without the answers to SSL requests.
AfterSsl(ws) == SelectSeq(ws, LAMBDA w : ~(w.origin = "proxy" /\ w.bytes = <<78>>))

\* The step is one of fake_startup or fake_authenticate.
FakeHandshakeStep(s) ==
    /\ fw[s].st = "Listening" /\ fw[s].pc = "fake_startup"
    /\ fw'[s] # fw[s]

\* Everything the step has written went to debug connection d, and is the
\* proxy's own.
WritesOnlyTo(s, d) ==
    /\ IsPrefix(wire[s], wire'[s])
    /\ \A i \in (Len(wire[s]) + 1)..Len(wire'[s]) :
          /\ wire'[s][i].dir = "down" /\ wire'[s][i].peer = d
          /\ wire'[s][i].origin = "proxy"

\* C11: what a debug client is written after its SSL requests begins with
\* 52 00 00 00 08 00 00 00 00 and 5A 00 00 00 05 49, in that order, both
\* there once the session serves it and before any byte of the backend; the
\* fake handshake writes to the debug client only, and nothing of the
\* startup message.
C11_FakeHandshake ==
    /\ [](\A s \in Sessions : \A d \in DOMAIN net[s].dconn :
             LET ws == Bytes(AfterSsl(Down(s, d)))
                 hs == << <<82, 0, 0, 0, 8, 0, 0, 0, 0>>, <<90, 0, 0, 0, 5, 73>> >>
             IN  /\ IsPrefix(ws, hs) \/ IsPrefix(hs, ws)
                 /\ (fw[s].dbg = d /\ fw[s].st # "Listening") => IsPrefix(hs, ws)
                 /\ \A i \in 1..Len(AfterSsl(Down(s, d))) :
                       AfterSsl(Down(s, d))[i].origin = "backend" => i > 2)
    /\ [][\A s \in Sessions :
             FakeHandshakeStep(s)
                 => /\ WritesOnlyTo(s, fw[s].dbg)
                    /\ be'[s] = be[s] /\ pri'[s] = pri[s]]_vars

C11_Witness ==
    \E s \in Sessions : \E d \in DOMAIN net[s].dconn :
        /\ net[s].dconn[d].started /\ net[s].dconn[d].ssl > 0
        /\ Len(Down(s, d)) >= 4
        /\ Down(s, d)[1].bytes = <<78>>
        /\ Down(s, d)[2].bytes = <<82, 0, 0, 0, 8, 0, 0, 0, 0>>
        /\ Down(s, d)[3].bytes = <<90, 0, 0, 0, 5, 73>>
        /\ Down(s, d)[4].origin = "backend"

\* The answers to SSL requests are the first things written to a peer, each
\* the one byte 'N', and no more of them than requests were sent.
SslAnswers(s, to, asked) ==
    /\ CountReceived(s, to, <<78>>) <= asked
    /\ \A i \in 1..Len(Down(s, to)) :
          Down(s, to)[i].origin = "proxy" /\ Len(Down(s, to)[i].bytes) = 1
              => /\ Down(s, to)[i].bytes = <<78>>
                 /\ \A j \in 1..(i - 1) : Down(s, to)[j].bytes = <<78>>

\* The startup message of the primary has been forwarded to the backend.
StartupForwarded(s) ==
    \E i \in 1..Len(wire[s]) :
        /\ wire[s][i].dir = "up" /\ wire[s][i].hs /\ wire[s][i].ok
        /\ wire[s][i].bytes = StartupPacket

\* C12: every SSL request of the primary or of a debug client is answered
\* with the one byte 'N', however many there are, and the startup message
\* that follows is accepted: forwarded to the backend for the primary,
\* consumed and followed by the fake handshake for a debug client.
C12_SslRefusal ==
    /\ [](\A s \in Sessions :
             /\ SslAnswers(s, Primary, pri[s].ssl)
             /\ \A d \in DOMAIN net[s].dconn : SslAnswers(s, d, net[s].dconn[d].ssl))
    /\ []<>(\A s \in Sessions :
               /\ CountReceived(s, Primary, <<78>>) = pri[s].ssl
               /\ pri[s].started => StartupForwarded(s)
               /\ \A d \in DOMAIN net[s].dconn :
                     /\ CountReceived(s, d, <<78>>) = net[s].dconn[d].ssl
                     /\ net[s].dconn[d].started
                           => Received(s, d, <<90, 0, 0, 0, 5, 73>>))

C12_Witness ==
    \E s \in Sessions : \E d \in DOMAIN net[s].dconn :
        /\ pri[s].ssl = 2 /\ CountReceived(s, Primary, <<78>>) = 2
        /\ StartupForwarded(s)
        /\ net[s].dconn[d].ssl = 2 /\ CountReceived(s, d, <<78>>) = 2
        /\ net[s].dconn[d].started /\ Received(s, d, <<90, 0, 0, 0, 5, 73>>)

(***************************************************************************)
(* The end of a session.                                                   *)
(***************************************************************************)
\* The primary or the backend has closed its end.
PeerFailed(s) == net[s].ceof \/ net[s].teof

\* The session has ended and holds nothing any more.
Released(s) ==
    /\ fw[s].st = "Terminated"
    /\ ~fw[s].listener /\ fw[s].dbg = 0
    /\ \A d \in DOMAIN net[s].dconn : Dropped(s, d)

\* C13: once the primary or the backend has closed its end, the session
\* terminates and with it its sockets, its debug listener and its debug
\* client, an attached and idle debug client notwithstanding.
C13_TerminatesOnFailure ==
    \A s \in Sessions : PeerFailed(s) ~> Released(s)

(***************************************************************************)
(* The debug listener.                                                     *)
(***************************************************************************)
Attached(s) == {d \in DOMAIN net[s].dconn : net[s].dconn[d].state = "attached"}

\* The step accepts connection d of the debug listener.
Accepts(s, d) ==
    /\ Connected(s, d) /\ net[s].dconn[d].state = "queued"
    /\ net'[s].dconn[d].state = "attached"

\* C14: a session has at most one debug client, the one it holds, and only
\* a step taken in Idle accepts a connection of the debug listener.
C14_SingleDebugClient ==
    /\ [](\A s \in Sessions :
             /\ Cardinality(Attached(s)) <= 1
             /\ \A d \in Attached(s) : fw[s].dbg = d)
    /\ [][\A s \in Sessions : \A d \in 1..MaxDebugConns : Accepts(s, d) => Idle(s)]_vars

C14_Witness ==
    \E s \in Sessions : \E d, e \in DOMAIN net[s].dconn :
        /\ fw[s].st \in {"DebugMode", "DebugForwardingServer"}
        /\ fw[s].dbg = d /\ Attached(s) = {d}
        /\ net[s].dconn[e].state = "queued" /\ net[s].dconn[e].started

(***************************************************************************)
(* The authentication of the primary.                                      *)
(***************************************************************************)
\* The frames authenticate has forwarded, in order: what the handshake has
\* written after the startup packets.
AuthLog(s) ==
    SelectSeq(wire[s], LAMBDA w : /\ w.hs /\ w.ok /\ w.origin # "proxy"
                                  /\ w.bytes \notin {SslRequestPacket, StartupPacket})

\* C15: the first frame of the exchange goes from the backend to the
\* primary; the second goes from the primary to the backend if, and only
\* if, the first has the tag 'R'; every other one goes from the backend to
\* the primary, the last of them being the first with the tag 'Z'.
C15_AuthExchange ==
    \A s \in Sessions :
        LET a == AuthLog(s)
        IN  /\ Len(a) >= 1 => a[1].dir = "down"
            /\ Len(a) >= 2 => (a[2].dir = "up" <=> a[1].bytes[1] = 82)
            /\ \A i \in 3..Len(a) : a[i].dir = "down"
            /\ \A i \in 2..(Len(a) - 1) : ~(a[i].dir = "down" /\ a[i].bytes[1] = 90)

\* The backend has answered the SSL request the proxy awaits the answer
\* to, and not with 'N'.
SslAccepted(s) ==
    /\ fw[s].st = "Start" /\ fw[s].pc = "ssl_reply"
    /\ net[s].tsock # <<>> /\ Head(net[s].tsock) # 78

\* The handshake of the primary has failed: during it the primary has
\* closed, or the backend has without having sent the ReadyForQuery.
HandshakeFailed(s) ==
    /\ fw[s].st = "Start"
    /\ \/ net[s].ceof
       \/ net[s].teof /\ \A i \in 1..Len(be[s].emitted) : be[s].emitted[i].bytes[1] # 90

\* C16: the step that reads another answer than 'N' to an SSL request ends
\* the session and writes nothing; a session whose handshake has failed
\* does not get to Authenticated, where the debug listener is bound and the
\* PortMapper told; a session that ended in Start has neither.
C16_HandshakeFailure ==
    /\ [](\A s \in Sessions :
             fw[s].st \in {"Start", "Authenticated"}
                 => ~fw[s].listener /\ fw[s].client_port \notin DOMAIN port_map)
    /\ [][\A s \in Sessions :
             /\ (SslAccepted(s) /\ fw'[s] # fw[s])
                    => fw'[s].st = "Terminated" /\ wire'[s] = wire[s]
             /\ HandshakeFailed(s)
                    => /\ fw'[s].st \in {"Start", "Terminated"}
                       /\ port_map' = port_map]_vars

(***************************************************************************)
(* The decoders.                                                           *)
(***************************************************************************)
\* decode has been called, on the buffer Src, and has returned Res.
Called == codec.last.res.kind # "never"
Src == codec.last.src
Res == codec.last.res

\* C17: on a buffer of 5 bytes or more whose length field is below 4, the
\* decoder of client frames fails; so does the decoder of backend frames,
\* and also when the tag is 0.
C17_MalformedLength ==
    /\ (codec.which = "ClientCodec" /\ Called /\ Len(Src) >= 5 /\ GetI32(Src, 2) < 4)
           => Res.kind = "error"
    /\ (codec.which = "BackendCodec" /\ Called /\ Len(Src) >= 5
            /\ (GetI32(Src, 2) < 4 \/ Src[1] = 0))
           => Res.kind = "error"

\* The stream is one of client or backend frames, all of them well formed.
FramesOnly ==
    /\ codec.which \in {"ClientCodec", "BackendCodec"}
    /\ \A i \in 1..Len(codec.packets) : codec.packets[i] \in WellFormed

\* C18: of a stream of well-formed frames that arrives in chunks of any
\* size, the decoders of client and of backend frames yield those frames,
\* whole and in order, and all of them once all bytes are there; a call on
\* a buffer of fewer than 5 bytes, or of fewer than 1 + length, yields none
\* and leaves the buffer as it is, any other call yields the first 1 +
\* length bytes.
C18_ChunkIndependence ==
    FramesOnly =>
        /\ IsPrefix(codec.out, codec.packets)
        /\ Concat(codec.out) \o codec.buf \o codec.input = Concat(codec.packets)
        /\ Called =>
              IF Len(Src) < 5 \/ Len(Src) < 1 + GetI32(Src, 2)
              THEN Res.kind = "none" /\ Res.rest = Src
              ELSE /\ Res.kind = "frame"
                   /\ Res.frame = SubSeq(Src, 1, 1 + GetI32(Src, 2))
                   /\ Res.rest = SubSeq(Src, 2 + GetI32(Src, 2), Len(Src))
        /\ (codec.input = <<>> /\ Called /\ Res.kind = "none" /\ Src = codec.buf)
              => codec.out = codec.packets

C18_Witness ==
    /\ FramesOnly /\ Len(codec.packets) = 2
    /\ codec.packets[1] # codec.packets[2]
    /\ Len(codec.out) = 1
    /\ Called /\ Res.kind = "none" /\ Src = codec.buf
    /\ Len(Src) >= 5 /\ codec.input # <<>>

\* Fewer than max(8, length) bytes are in the buffer, the length being the
\* first 4 bytes read as an unsigned number: with a first byte of 128 or
\* more it is 2^31 at least, more than any buffer holds.
StartupShort(src) ==
    \/ Len(src) < 8
    \/ src[1] >= 128
    \/ Len(src) < GetI32(src, 1)

\* C19: the startup decoder yields none and leaves the buffer as it is
\* while fewer than max(8, length) bytes are buffered; otherwise it yields
\* SslRequest and takes 8 bytes when the first 8 are 00 00 00 08 04 D2 16
\* 2F, and else yields StartupMessage with the first `length` bytes and
\* takes those.
C19_StartupDecoding ==
    (codec.which = "StartupRequest" /\ Called) =>
        IF StartupShort(Src)
        THEN Res.kind = "none" /\ Res.rest = Src
        ELSE IF SubSeq(Src, 1, 8) = <<0, 0, 0, 8, 4, 210, 22, 47>>
             THEN /\ Res.kind = "ssl"
                  /\ Res.frame = SubSeq(Src, 1, 8)
                  /\ Res.rest = SubSeq(Src, 9, Len(Src))
             ELSE /\ Res.kind = "startup"
                  /\ Res.frame = SubSeq(Src, 1, GetI32(Src, 1))
                  /\ Res.rest = SubSeq(Src, GetI32(Src, 1) + 1, Len(Src))

C19_Witness ==
    /\ codec.which = "StartupRequest" /\ Called
    /\ Len(codec.out) = 2
    /\ codec.out[1] = <<0, 0, 0, 8, 4, 210, 22, 47>>
    /\ codec.out[2] = <<0, 0, 0, 9, 0, 3, 0, 0, 1>>
    /\ Res.kind = "startup" /\ Res.rest = <<>>

(***************************************************************************)
(* The requests of the primary.                                            *)
(***************************************************************************)
\* The writes that delivered a frame of the primary to the backend.
PrimaryUps(s) == {i \in 1..Len(wire[s]) : PrimaryUp(wire[s][i])}

LastPrimaryUp(s) == CHOOSE i \in PrimaryUps(s) : \A j \in PrimaryUps(s) : j <= i

\* The last frame of the primary that was forwarded is a Parse: its request
\* is not complete.
BatchOpen(s) ==
    /\ PrimaryUps(s) # {}
    /\ wire[s][LastPrimaryUp(s)].bytes[1] = 80

\* The last frame of the primary that was forwarded completes a request
\* that began with Parse, and no ReadyForQuery has been forwarded since.
ReplyOutstanding(s) ==
    /\ PrimaryUps(s) # {}
    /\ LET i == LastPrimaryUp(s)
       IN  /\ wire[s][i].bytes[1] # 80
           /\ \E j \in PrimaryUps(s) :
                 /\ j < i /\ wire[s][j].bytes[1] = 80
                 /\ \A k \in PrimaryUps(s) : k <= j \/ k >= i
           /\ \A k \in (i + 1)..Len(wire[s]) : ~ReadyForwarded(wire[s][k])

\* The writes of the step.
NewWrites(s) == (Len(wire[s]) + 1)..Len(wire'[s])

AcceptsNone(s) == \A d \in 1..MaxDebugConns : ~Accepts(s, d)

\* C20: after a Parse of the primary the session accepts no debug client
\* and forwards frames of the primary only; after the frame that completes
\* the request, and until the ReadyForQuery that follows, it accepts no
\* debug client and only forwards frames of the backend to the primary.
C20_PrimaryRequest ==
    [][\A s \in Sessions :
          /\ BatchOpen(s)
                => /\ AcceptsNone(s)
                   /\ \A i \in NewWrites(s) :
                         wire'[s][i].dir = "up" /\ wire'[s][i].peer = Primary
          /\ ReplyOutstanding(s)
                => /\ AcceptsNone(s)
                   /\ \A i \in NewWrites(s) :
                         /\ wire'[s][i].dir = "down" /\ wire'[s][i].peer = Primary
                         /\ wire'[s][i].origin = "backend"]_vars

(***************************************************************************)
(* The backend while a debug client is attached.                           *)
(***************************************************************************)
\* The session awaits the debug client and the backend.
DebugIdle(s) == fw[s].st = "DebugMode" /\ fw[s].pc = "select"

\* A backend frame that arrived in DebugIdle and was not ReadyForQuery has
\* been forwarded, and the ReadyForQuery that follows has not yet: the
\* session is in the loop of forward, or in ForwardingServer.
AfterDebugIdleFrame(s) ==
    \/ fw[s].st = "DebugMode" /\ fw[s].pc = "fwd_target"
    \/ fw[s].st = "ForwardingServer"

\* C21: a backend frame read in DebugIdle is forwarded to the debug client,
\* and if it is ReadyForQuery the session is Idle after it; if it is not,
\* the backend frames that follow, the next ReadyForQuery included, are
\* forwarded to the primary.
C21_DebugIdleBackend ==
    [][\A s \in Sessions :
          /\ DebugIdle(s)
                => \A i \in NewWrites(s) :
                      FromBackend(wire'[s][i])
                          => /\ wire'[s][i].peer = fw[s].dbg
                             /\ ReadyForwarded(wire'[s][i]) => Idle(s)'
          /\ AfterDebugIdleFrame(s)
                => \A i \in NewWrites(s) :
                      FromBackend(wire'[s][i]) => wire'[s][i].peer = Primary]_vars

(***************************************************************************)
(* The reply to a debug client.                                            *)
(***************************************************************************)
\* The session relays the backend's reply to the debug client.
DebugFwdServer(s) == fw[s].st = "DebugForwardingServer"

\* What the session reads next of the backend is the end of its stream, or
\* an error.
BackendEnded(s) == Read(s, "target").kind \in {"eof", "error"}

\* The step is one of the task of session s.
Steps(s) == fw'[s] # fw[s]

\* C22: in DebugFwdServer the end of the backend's stream, or an error of
\* it, terminates the session with an error; a failed write to the debug
\* client does not and leads to DebugIdle; and so does the forwarding of
\* ReadyForQuery to the debug client.
C22_DebugReplyErrors ==
    [][\A s \in Sessions :
          (DebugFwdServer(s) /\ Steps(s))
              => /\ BackendEnded(s)
                    => fw'[s].st = "Terminated" /\ fw'[s].err = "target"
                 /\ \A i \in NewWrites(s) :
                       /\ ~wire'[s][i].ok => DebugIdle(s)'
                       /\ ReadyForwarded(wire'[s][i])
                             => wire'[s][i].peer = fw[s].dbg /\ DebugIdle(s)']_vars

(***************************************************************************)
(* The order of a session's life.                                          *)
(***************************************************************************)
\* The ReadyForQuery that ends the handshake has been forwarded to the
\* primary.
HandshakeReady(s) ==
    \E i \in 1..Len(wire[s]) :
        wire[s][i].hs /\ ReadyForwarded(wire[s][i]) /\ wire[s][i].peer = Primary

\* The step binds the debug listener of session s.
Binds(s) == ~fw[s].listener /\ fw'[s].listener

\* The PortMapper holds the entry of session s.
Mapped(s) ==
    /\ fw[s].client_port \in DOMAIN port_map
    /\ port_map[fw[s].client_port] = fw[s].debug_port

\* The step forwards a frame of the primary that is not of the handshake,
\* or accepts a debug connection.
Serves(s) ==
    \/ \E i \in NewWrites(s) : wire'[s][i].dir = "up" /\ ~wire'[s][i].hs
    \/ \E d \in 1..MaxDebugConns : Accepts(s, d)

\* C23: the debug listener is bound, and the entry of the PortMapper made,
\* only once the ReadyForQuery of the handshake has been forwarded to the
\* primary, and both are there when the session is Idle for the first
\* time, before any frame of the primary that is not of the handshake is
\* forwarded and before any debug connection is accepted.
C23_LifecycleOrder ==
    /\ [][/\ \A s \in Sessions :
                /\ Binds(s) => /\ HandshakeReady(s)
                               /\ fw[s].pm => Mapped(s)'
                               /\ \A i \in 1..Len(wire'[s]) : ~IsUp(wire'[s][i])
                               /\ net'[s].dconn = <<>>
                /\ Serves(s) => fw[s].listener /\ (fw[s].pm => Mapped(s))
          /\ port_map' # port_map => \E s \in Sessions : Binds(s) /\ fw[s].pm]_vars
    /\ [](\A s \in Sessions : Idle(s) => fw[s].listener /\ (fw[s].pm => Mapped(s)))

C23_Witness ==
    \E s \in Sessions :
        /\ fw[s].pm /\ fw[s].listener /\ Mapped(s) /\ HandshakeReady(s)
        /\ \E i \in 1..Len(wire[s]) : PrimaryUp(wire[s][i])
        /\ Attached(s) # {}

(***************************************************************************)
(* forward: when a forwarding step ends.                                   *)
(***************************************************************************)
\* The task is at a call of forward, or inside its loop: the arms of the
\* selects, DebugForwardingServer, and the last call of authenticate.
AtForward(s) ==
    \/ fw[s].st = "Listening" /\ fw[s].pc \in {"select", "fwd_client", "fwd_target"}
    \/ fw[s].st \in {"DebugMode", "DebugForwardingServer"}
    \/ fw[s].st = "Start" /\ fw[s].pc = "auth3"

\* After the step the call of forward that sent a frame is still in its
\* loop, about to read the stream it forwards from.
StaysInForward(s) ==
    \/ fw'[s].pc \in {"fwd_client", "fwd_target", "fwd_debug"}
    \/ fw'[s].st = "Start" /\ fw'[s].pc = "auth3"
    \/ fw[s].st = "DebugForwardingServer" /\ fw'[s].st = "DebugForwardingServer"

\* What a stream still holds for the proxy: the read buffer of its Framed,
\* then the socket.
Unread(s, w) ==
    CASE w.dir = "down" -> fw[s].tbuf \o net[s].tsock
      [] w.dir = "up" /\ w.peer = Primary -> fw[s].cbuf \o net[s].csock
      [] OTHER -> fw[s].dbuf \o net[s].dconn[w.peer].sock

\* The same after the step.
UnreadAfter(s, w) ==
    CASE w.dir = "down" -> fw'[s].tbuf \o net'[s].tsock
      [] w.dir = "up" /\ w.peer = Primary -> fw'[s].cbuf \o net'[s].csock
      [] OTHER -> fw'[s].dbuf \o net'[s].dconn[w.peer].sock

Quiet(s) == Idle(s) /\ PrimaryForwarded(s) /\ AllAnswered(s)

QuietNotice(s) ==
    /\ Quiet(s)
    /\ BackendNotice(s)

InitNotice ==
    InitWith(1, {1}, TRUE, MaxPrimaryFrames, PrimaryEvents + MaxNotice, {TRUE})

NextNotice ==
    \E s \in Sessions :
        \/ ListenerAccept(s)
        \/ RunPrimary(s)
        \/ OrderlyPeers(s)
        \/ QuietNotice(s)

SpecNotice ==
    InitNotice /\ [][NextNotice]_vars /\ FairPrimary

\* The backend has sent a message of its own accord.
Noticed(s) == be[s].notices > 0

\* C25: after a message the backend has sent of its own accord while the
\* session was Idle and nothing in flight, every frame the primary sends is
\* eventually forwarded to the backend.
C25_AfterUnsolicited ==
    \A s \in Sessions : \A n \in 1..MaxPrimaryFrames :
        (Noticed(s) /\ Len(pri[s].sent) >= n) ~> (Cardinality(PrimaryUps(s)) >= n)

(***************************************************************************)
(* One session and debug clients that connect and then keep silent: they   *)
(* send no startup packet and do not disconnect.  The primary asks simple  *)
(* queries and the backend answers them.                                   *)
(***************************************************************************)
SimpleQuery(s) ==
    /\ PrimarySend(s)
    /\ ClientDone(Last(pri'[s].sent))

InitSilent == InitWith(1, {1}, TRUE, MaxPrimaryFrames, MaxEvents, {TRUE})

NextSilent ==
    \E s \in Sessions :
        \/ ListenerAccept(s)
        \/ RunPlain(s)
        \/ ListeningAccept(s)
        \/ PrimarySendStartup(s)
        \/ SimpleQuery(s)
        \/ BackendTrusts(s)
        \/ BackendReply(s)
        \/ DebugConnect(s)

FairSilent ==
    WF_vars(\E s \in Sessions :
                \/ RunPlain(s) \/ ListeningAccept(s)
                \/ PrimarySendStartup(s) \/ BackendTrusts(s) \/ BackendReply(s))

SpecSilent ==
    InitSilent /\ [][NextSilent]_vars /\ FairSilent

\* C26: with debug clients that connect and keep silent, every frame the
\* primary sends is eventually forwarded to the backend, and every frame
\* the backend sends is eventually forwarded.
C26_SilentDebugClient ==
    \A s \in Sessions :
        /\ \A n \in 1..MaxPrimaryFrames :
              (Len(pri[s].sent) >= n) ~> (Cardinality(PrimaryUps(s)) >= n)
        /\ \A n \in 1..(2 + MaxPrimaryFrames * (1 + MaxReplyData)) :
              (Len(be[s].emitted) >= n) ~> (Len(Forwarded(s)) >= n)

(***************************************************************************)
(* The Terminate of a debug client.                                        *)
(***************************************************************************)
\* C27: no Terminate frame of a debug client is delivered to the backend,
\* whatever the debug client has sent before it.
C27_DebugTerminate ==
    \A s \in Sessions : \A i \in 1..Len(wire[s]) :
        DebugUp(wire[s][i]) => wire[s][i].bytes[1] # 88

(***************************************************************************)
(* One session whose clients do not wait: the primary sends its startup    *)
(* message directly after an SSL request and a query directly after the    *)
(* startup message, and a debug client a query directly after its startup  *)
(* packet.  The backend refuses SSL, trusts and answers; nobody closes.    *)
(***************************************************************************)
EagerStartup(s) ==
    /\ Live(s) /\ ~net[s].ceof
    /\ ~pri[s].started
    /\ net' = [net EXCEPT ![s].csock = @ \o StartupPacket]
    /\ pri' = [pri EXCEPT ![s].started = TRUE]
    /\ UNCHANGED <<fw, wire, be, port_map>>
    /\ NoEvent

EagerSend(s) ==
    /\ Live(s) /\ ~net[s].ceof
    /\ pri[s].started
    /\ Len(pri[s].sent) < pri[s].max
    /\ net' = [net EXCEPT ![s].csock = @ \o QueryFrame]
    /\ pri' = [pri EXCEPT ![s].sent = Append(@, QueryFrame)]
    /\ UNCHANGED <<fw, wire, be, port_map>>
    /\ Event

EagerDebugSend(s) ==
    /\ \E d \in DOMAIN net[s].dconn :
          /\ Open(s, d) /\ net[s].dconn[d].started
          /\ Len(net[s].dconn[d].sent) < MaxDebugFrames
          /\ net' = [net EXCEPT ![s].dconn[d].sock = @ \o QueryFrame,
                                ![s].dconn[d].sent = Append(@, QueryFrame)]
    /\ UNCHANGED <<fw, wire, be, pri, port_map>>
    /\ Event

InitEager == InitWith(1, {1}, TRUE, MaxPrimaryFrames, MaxEvents, {TRUE})

NextEager ==
    \E s \in Sessions :
        \/ ListenerAccept(s)
        \/ Run(s)
        \/ PrimarySendSsl(s)
        \/ EagerStartup(s)
        \/ EagerSend(s)
        \/ BackendRefusesSsl(s)
        \/ BackendTrusts(s)
        \/ BackendReply(s)
        \/ DebugConnect(s)
        \/ DebugSendStartup(s)
        \/ EagerDebugSend(s)

SpecEager == InitEager /\ [][NextEager]_vars

\* All the primary has sent, and all a debug client has.
PrimaryStream(s) ==
    Concat([i \in 1..pri[s].ssl |-> SslRequestPacket])
        \o (IF pri[s].started THEN StartupPacket ELSE <<>>)
        \o Concat(pri[s].sent)

DebugStream(s, d) ==
    (IF net[s].dconn[d].started THEN StartupPacket ELSE <<>>)
        \o Concat(net[s].dconn[d].sent)

\* What the proxy has decoded of them: the packets and frames of the
\* primary it has written to the backend; the startup packet a debug client
\* was given the fake handshake for, and its frames written to the backend.
PrimaryTaken(s) ==
    Concat(Bytes(SelectSeq(wire[s], LAMBDA w : w.dir = "up" /\ w.peer = Primary)))

DebugTaken(s, d) ==
    (IF Received(s, d, AuthOkFrame) THEN StartupPacket ELSE <<>>)
        \o Concat(Bytes(SelectSeq(wire[s], LAMBDA w : w.dir = "up" /\ w.peer = d)))

\* C28: of what a client has sent, every byte is decoded and forwarded, or
\* is still in the session's read buffer or in the socket: none is dropped
\* where one decoder takes over from another.
C28_NoBytesLost ==
    \A s \in Sessions :
        Live(s) =>
            /\ PrimaryTaken(s) \o fw[s].cbuf \o net[s].csock = PrimaryStream(s)
            /\ \A d \in DOMAIN net[s].dconn :
                  ~Dropped(s, d) =>
                      DebugTaken(s, d) \o (IF fw[s].dbg = d THEN fw[s].dbuf ELSE <<>>)
                          \o net[s].dconn[d].sock = DebugStream(s, d)

(***************************************************************************)
(* The variants a session is ever in.                                      *)
(***************************************************************************)
\* The step is one in which a call of forward has sent a frame and is not
\* in its loop any more: it has returned Ok.
ForwardReturns(s) ==
    /\ AtForward(s) /\ Steps(s) /\ Live(s)'
    /\ NewWrites(s) # {} /\ Last(wire'[s]).ok
    /\ ~StaysInForward(s)

Completing(w) == IF w.dir = "up" THEN w.bytes[1] # 80 ELSE w.bytes[1] = 90

\* C29: forward returns Ok only when it has just sent a completing frame,
\* and a session is never in ForwardingClient, ForwardingServer or
\* DebugForwardingClient: it is in Start, Authenticated, Listening,
\* DebugMode or DebugForwardingServer.
C29_ReachableVariants ==
    /\ [][\A s \in Sessions : ForwardReturns(s) => Completing(Last(wire'[s]))]_vars
    /\ [](\A s \in Sessions :
             Live(s) => fw[s].st \in {"Start", "Authenticated", "Listening", "DebugMode",
                                      "DebugForwardingServer"})

C29_Witness ==
    \E s \in Sessions :
        /\ fw[s].st = "Listening" /\ fw[s].pc = "select"
        /\ Len(wire[s]) >= 2
        /\ PrimaryUp(wire[s][Len(wire[s]) - 1]) /\ wire[s][Len(wire[s]) - 1].bytes[1] = 80
        /\ PrimaryUp(Last(wire[s])) /\ Last(wire[s]).bytes[1] = 81
        /\ \E i \in 1..Len(wire[s]) : DebugUp(wire[s][i])

====
